---------------------------- MODULE Spec2Model ----------------------------
(***************************************************************************)
(* N-body simulation engine: quadtree (quadtree.rs), gravity and collision *)
(* kernels (physics.rs) and the integrator (simulation.rs).                *)
(*                                                                         *)
(* f64 values are modelled as fixed-point numbers with Q units per 1.0,    *)
(* extended with the IEEE special values NaN, +inf and -inf.  Halving a    *)
(* box is exact in the model exactly as it is in f64, as long as the tree  *)
(* is not deeper than the node pool bound allows.                          *)
(***************************************************************************)
EXTENDS Integers, Sequences, FiniteSets, TLC

(***************************************************************************)
(* Bounds of the model.                                                    *)
(***************************************************************************)
MaxBodies == 3
MaxCapacity == 2
MaxNodes == 13
MaxSteps == 2

(***************************************************************************)
(* f64 arithmetic.  A finite value v stands for v / Q.                     *)
(***************************************************************************)
Q == 2^8
FMaxV == 2^20

Fin(n) == [k |-> "fin", v |-> n]
NaN == [k |-> "nan", v |-> 0]
PInf == [k |-> "inf", v |-> 1]
NInf == [k |-> "inf", v |-> -1]
Zero == Fin(0)
Real(n) == Fin(n * Q)
F64MAX == Fin(FMaxV)
F64MIN == Fin(-FMaxV)

IsNaN(a) == a.k = "nan"
IsFinite(a) == a.k = "fin"
Sgn(a) == IF a.v > 0 THEN 1 ELSE IF a.v < 0 THEN -1 ELSE 0
Abs(n) == IF n < 0 THEN -n ELSE n
Signed(s) == IF s > 0 THEN PInf ELSE NInf

\* a finite result outside the representable range overflows to an infinity
\* (FMul decides it before multiplying when the product is out of range)
Overflow(n) == IF n > FMaxV THEN PInf ELSE IF n < -FMaxV THEN NInf ELSE Fin(n)

\* n / d rounded to the nearest integer, d # 0
RoundDiv(n, d) ==
    LET s == IF (n < 0) = (d < 0) THEN 1 ELSE -1
    IN  s * ((2 * Abs(n) + Abs(d)) \div (2 * Abs(d)))

RECURSIVE SqrtSearch(_, _, _)
SqrtSearch(n, lo, hi) ==
    IF hi - lo <= 1 THEN lo
    ELSE LET mid == (lo + hi) \div 2
         IN  IF mid * mid <= n THEN SqrtSearch(n, mid, hi) ELSE SqrtSearch(n, lo, mid)

\* nearest integer to the square root of n >= 0
ISqrt(n) ==
    LET r == SqrtSearch(n, 0, IF n + 1 < 2^15 THEN n + 1 ELSE 2^15)
    IN  IF n - r * r > r THEN r + 1 ELSE r

FNeg(a) == IF IsNaN(a) THEN NaN ELSE [k |-> a.k, v |-> -a.v]

FAdd(a, b) ==
    IF IsNaN(a) \/ IsNaN(b) THEN NaN
    ELSE IF a.k = "inf" /\ b.k = "inf" THEN (IF a.v = b.v THEN a ELSE NaN)
    ELSE IF a.k = "inf" THEN a
    ELSE IF b.k = "inf" THEN b
    ELSE Overflow(a.v + b.v)

FSub(a, b) == FAdd(a, FNeg(b))

FMul(a, b) ==
    IF IsNaN(a) \/ IsNaN(b) THEN NaN
    ELSE IF a.k = "inf" \/ b.k = "inf"
         THEN (IF Sgn(a) * Sgn(b) = 0 THEN NaN ELSE Signed(Sgn(a) * Sgn(b)))
    ELSE IF b.v # 0 /\ Abs(a.v) > (FMaxV * Q + Q \div 2) \div Abs(b.v)
         THEN Signed(Sgn(a) * Sgn(b))
    ELSE Overflow(RoundDiv(a.v * b.v, Q))

FDiv(a, b) ==
    IF IsNaN(a) \/ IsNaN(b) THEN NaN
    ELSE IF a.k = "inf" /\ b.k = "inf" THEN NaN
    ELSE IF a.k = "inf" THEN Signed(IF Sgn(b) < 0 THEN -Sgn(a) ELSE Sgn(a))
    ELSE IF b.k = "inf" THEN Zero
    ELSE IF b.v = 0 THEN (IF a.v = 0 THEN NaN ELSE Signed(Sgn(a)))
    ELSE Overflow(RoundDiv(a.v * Q, b.v))

FSqrt(a) ==
    IF IsNaN(a) THEN NaN
    ELSE IF a.v < 0 THEN NaN
    ELSE IF a.k = "inf" THEN PInf
    ELSE Fin(ISqrt(a.v * Q))

\* comparisons: every comparison with a NaN is false
FLt(a, b) ==
    /\ ~IsNaN(a) /\ ~IsNaN(b)
    /\ IF a.k = "inf" THEN a.v < 0 /\ b # a
       ELSE IF b.k = "inf" THEN b.v > 0
       ELSE a.v < b.v
FGt(a, b) == FLt(b, a)
FLe(a, b) == ~IsNaN(a) /\ ~IsNaN(b) /\ ~FLt(b, a)

\* f64::min and f64::max return the other operand when one is a NaN
FMin(a, b) == IF IsNaN(a) THEN b ELSE IF IsNaN(b) THEN a ELSE IF FLt(b, a) THEN b ELSE a
FMax(a, b) == IF IsNaN(a) THEN b ELSE IF IsNaN(b) THEN a ELSE IF FLt(a, b) THEN b ELSE a

Two == Real(2)
Half(a) == FDiv(a, Two)

\* lib.rs: squared distances below SMALL are singular.  1e-5 lies below the
\* model's resolution: the only representable value below it is zero.
SMALL == Fin(1)


(***************************************************************************)
(* Body (physics.rs).  The colour is opaque to the engine and left out.    *)
(***************************************************************************)
Body(pos, vel, m, r) ==
    [position |-> <<Real(pos[1]), Real(pos[2])>>,
     velocity |-> <<Real(vel[1]), Real(vel[2])>>,
     mass |-> Real(m), radius |-> Real(r)]

\* Body::default
DefaultBody == Body(<<0, 0>>, <<0, 0>>, 1, 1)

\* indices are 0-based as in the code; TLA+ sequences are 1-based
At(seq, i) == seq[i + 1]

kinectic_energy(b) ==
    FMul(FMul(Half(Real(1)), b.mass),
         FAdd(FMul(b.velocity[1], b.velocity[1]), FMul(b.velocity[2], b.velocity[2])))

(***************************************************************************)
(* SquareBox (quadtree.rs).                                                *)
(***************************************************************************)
SquareBox(center, half_size) == [center |-> center, half_size |-> half_size]

RECURSIVE BBoxFold(_, _, _)
BBoxFold(bodies, n, acc) ==
    IF n > Len(bodies) THEN acc
    ELSE LET x == bodies[n].position[1]
             y == bodies[n].position[2]
         IN  BBoxFold(bodies, n + 1,
                      <<FMin(acc[1], x), FMax(acc[2], x), FMin(acc[3], y), FMax(acc[4], y)>>)

from_bodies(bodies) ==
    LET bbox == BBoxFold(bodies, 1, <<F64MAX, F64MIN, F64MAX, F64MIN>>)
    IN  SquareBox(<<Half(FAdd(bbox[1], bbox[2])), Half(FAdd(bbox[3], bbox[4]))>>,
                  Half(FMax(FSub(bbox[2], bbox[1]), FSub(bbox[4], bbox[3]))))

x_min(b) == FSub(b.center[1], b.half_size)
x_max(b) == FAdd(b.center[1], b.half_size)
y_min(b) == FSub(b.center[2], b.half_size)
y_max(b) == FAdd(b.center[2], b.half_size)
size(b) == FMul(b.half_size, Two)

\* a boundary test that is open on the edges
contains_open(b, point) ==
    /\ FLt(x_min(b), point[1]) /\ FLt(point[1], x_max(b))
    /\ FLt(y_min(b), point[2]) /\ FLt(point[2], y_max(b))

contains(b, point) ==
    /\ FLe(x_min(b), point[1]) /\ FLe(point[1], x_max(b))
    /\ FLe(y_min(b), point[2]) /\ FLe(point[2], y_max(b))

contains_box(b, other) ==
    /\ FLe(x_min(b), x_min(other)) /\ FLe(x_max(other), x_max(b))
    /\ FLe(y_min(b), y_min(other)) /\ FLe(y_max(other), y_max(b))

get_quadrant_unchecked(b, point) ==
    IF FGt(point[2], b.center[2])
    THEN (IF FGt(point[1], b.center[1]) THEN 0 ELSE 1)
    ELSE IF FLt(point[1], b.center[1]) THEN 2
    ELSE 3

north_east(b) ==
    SquareBox(<<FAdd(b.center[1], Half(b.half_size)), FAdd(b.center[2], Half(b.half_size))>>,
              Half(b.half_size))
north_west(b) ==
    SquareBox(<<FSub(b.center[1], Half(b.half_size)), FAdd(b.center[2], Half(b.half_size))>>,
              Half(b.half_size))
south_west(b) ==
    SquareBox(<<FSub(b.center[1], Half(b.half_size)), FSub(b.center[2], Half(b.half_size))>>,
              Half(b.half_size))
south_east(b) ==
    SquareBox(<<FAdd(b.center[1], Half(b.half_size)), FSub(b.center[2], Half(b.half_size))>>,
              Half(b.half_size))

(***************************************************************************)
(* QuadTreeNode and SquareQuadtree (quadtree.rs).  The node pool is a      *)
(* sequence; node and body indices are the code's 0-based indices.         *)
(***************************************************************************)
DEFAULT_CAPACITY == 32
ROOT_IDX == 0

QuadTreeNode(boundary) ==
    [boundary |-> boundary, referenced_indices |-> <<>>, children_idx |-> 0, mass |-> Zero]

is_leaf(node) == node.children_idx = 0

\* a traversal that forgets the last child
child_range_short(first_idx) == [q \in 1..3 |-> first_idx + q - 1]

\* first_idx..first_idx + 4: the pool slots of the four children
child_range(first_idx) == [q \in 1..4 |-> first_idx + q - 1]

\* SquareQuadtree::new and SquareQuadtree::clear: a pool holding a fresh root
clear(boundary) == <<QuadTreeNode(boundary)>>

RECURSIVE TransferUncredited(_, _, _, _, _)
\* a transfer that moves the indices but does not credit the children's mass
TransferUncredited(nodes, parent_idx, first_child, taken, bodies) ==
    IF taken = <<>> THEN nodes
    ELSE LET idx == Head(taken)
             quadrant == get_quadrant_unchecked(At(nodes, parent_idx).boundary,
                                                At(bodies, idx).position)
             c == first_child + quadrant + 1
             moved == [nodes EXCEPT ![c].referenced_indices = Append(@, idx)]
         IN  TransferUncredited(moved, parent_idx, first_child, Tail(taken), bodies)

RECURSIVE Transfer(_, _, _, _, _)
\* the loop of subdivide that moves the parent's indices to the children
Transfer(nodes, parent_idx, first_child, taken, bodies) ==
    IF taken = <<>> THEN nodes
    ELSE LET idx == Head(taken)
             quadrant == get_quadrant_unchecked(At(nodes, parent_idx).boundary,
                                                At(bodies, idx).position)
             c == first_child + quadrant + 1
             moved == [nodes EXCEPT
                          ![c].referenced_indices = Append(@, idx),
                          ![c].mass = FAdd(@, At(bodies, idx).mass)]
         IN  Transfer(moved, parent_idx, first_child, Tail(taken), bodies)

\* a subdivision that copies the parent's indices to the children and leaves
\* them in the parent too
subdivide_keeping(nodes, parent_idx, bodies) ==
    LET first_child == Len(nodes)
        parent == At(nodes, parent_idx)
        pushed == [nodes EXCEPT ![parent_idx + 1].children_idx = first_child]
                    \o <<QuadTreeNode(north_west(parent.boundary)),
                         QuadTreeNode(north_east(parent.boundary)),
                         QuadTreeNode(south_west(parent.boundary)),
                         QuadTreeNode(south_east(parent.boundary))>>
    IN  Transfer(pushed, parent_idx, first_child, parent.referenced_indices, bodies)

\* SquareQuadtree::subdivide: four children pushed at the end of the pool
\* and the parent's indices taken and moved to them
subdivide(nodes, parent_idx, bodies) ==
    LET first_child == Len(nodes)
        parent == At(nodes, parent_idx)
        nw == north_west(parent.boundary)
        ne == north_east(parent.boundary)
        sw == south_west(parent.boundary)
        se == south_east(parent.boundary)
        pushed == [nodes EXCEPT ![parent_idx + 1].children_idx = first_child,
                                ![parent_idx + 1].referenced_indices = <<>>]
                    \o <<QuadTreeNode(nw), QuadTreeNode(ne), QuadTreeNode(sw), QuadTreeNode(se)>>
    IN  Transfer(pushed, parent_idx, first_child, parent.referenced_indices, bodies)

\* insert_unchecked, the end of an iteration that did not store the index:
\* the child of node_idx in the quadrant of the body is pushed on the deque
push_child(nodes, node_idx, index, bodies, exhausted) ==
    [nodes |-> nodes, stored |-> FALSE,
     next |-> At(nodes, node_idx).children_idx
                + get_quadrant_unchecked(At(nodes, node_idx).boundary,
                                         At(bodies, index).position),
     exhausted |-> exhausted]

\* insert_unchecked at node node_idx, after the mass was credited: a leaf
\* with room stores the index, a full leaf is subdivided first.  A full leaf
\* of a pool that cannot grow any more leaves the pool as it is (exhausted)
visit_node(nodes, node_idx, index, bodies, cap) ==
    LET node == At(nodes, node_idx)
        full == is_leaf(node) /\ Len(node.referenced_indices) >= cap
        exhausted == full /\ Len(nodes) + 4 > MaxNodes
    IN  IF is_leaf(node) /\ ~full
        THEN [nodes |-> [nodes EXCEPT ![node_idx + 1].referenced_indices = Append(@, index)],
              stored |-> TRUE, next |-> ROOT_IDX, exhausted |-> FALSE]
        ELSE push_child(IF full /\ ~exhausted THEN subdivide(nodes, node_idx, bodies) ELSE nodes,
                        node_idx, index, bodies, exhausted)

\* one iteration of the while loop of insert_unchecked at node node_idx:
\* the pool after the iteration, whether the index was stored (return), the
\* node pushed on the deque, and whether the pool could not grow any more
InsertIteration(nodes, node_idx, index, bodies, cap) ==
    visit_node([nodes EXCEPT ![node_idx + 1].mass = FAdd(@, At(bodies, index).mass)],
               node_idx, index, bodies, cap)

RECURSIVE CollectLoop(_, _, _)
\* the inner loop of the fast path of query_range
CollectLoop(nodes, deque, result) ==
    IF deque = <<>> THEN result
    ELSE LET child == At(nodes, Head(deque))
         IN  IF is_leaf(child)
             THEN CollectLoop(nodes, Tail(deque), result \o child.referenced_indices)
             ELSE CollectLoop(nodes,
                              Tail(deque) \o child_range(child.children_idx),
                              result)

RECURSIVE TestLoop(_, _, _, _)
\* the slow path of query_range on a leaf
TestLoop(indices, boundary, bodies, result) ==
    IF indices = <<>> THEN result
    ELSE TestLoop(Tail(indices), boundary, bodies,
                  IF contains(boundary, At(bodies, Head(indices)).position)
                  THEN Append(result, Head(indices)) ELSE result)

RECURSIVE QueryLoop(_, _, _, _, _)
QueryLoop(nodes, boundary, bodies, deque, result) ==
    IF deque = <<>> THEN result
    ELSE LET node == At(nodes, Head(deque))
             four == child_range(node.children_idx)
         IN  IF contains_box(boundary, node.boundary)
             THEN QueryLoop(nodes, boundary, bodies, Tail(deque),
                            IF is_leaf(node) THEN result \o node.referenced_indices
                            ELSE CollectLoop(nodes, four, result))
             ELSE IF is_leaf(node)
             THEN QueryLoop(nodes, boundary, bodies, Tail(deque),
                            TestLoop(node.referenced_indices, boundary, bodies, result))
             ELSE QueryLoop(nodes, boundary, bodies, Tail(deque) \o four, result)

query_range(nodes, boundary, bodies) == QueryLoop(nodes, boundary, bodies, <<ROOT_IDX>>, <<>>)

(***************************************************************************)
(* Gravity kernel (physics.rs).  Besides the force buffer the operators    *)
(* return the sequence of neighbours j the pairwise kernel was called for. *)
(***************************************************************************)
\* dx * dx + dy * dy
distance_sqr(d) == FAdd(FMul(d[1], d[1]), FMul(d[2], d[2]))

\* forces[ith] += force * d / distance, with force = G m_i m / d_sqr
add_force(forces, ith, dx, dy, d_sqr, gmm) ==
    [forces EXCEPT ![ith + 1] =
        <<FAdd(@[1], FDiv(FMul(FDiv(gmm, d_sqr), dx), FSqrt(d_sqr))),
          FAdd(@[2], FDiv(FMul(FDiv(gmm, d_sqr), dy), FSqrt(d_sqr)))>>]

accumulate_gravity_force(ith, jth, forces, bodies, gravity_constant) ==
    LET dx == FSub(At(bodies, jth).position[1], At(bodies, ith).position[1])
        dy == FSub(At(bodies, jth).position[2], At(bodies, ith).position[2])
        d_sqr == distance_sqr(<<dx, dy>>)
    IN  IF FLt(d_sqr, SMALL) THEN forces
        ELSE add_force(forces, ith, dx, dy, d_sqr,
                       FMul(FMul(gravity_constant, At(bodies, ith).mass), At(bodies, jth).mass))

RECURSIVE LeafLoop(_, _, _, _, _)
\* the brute-force loop of compute_gravity_forces over the indices of a leaf
LeafLoop(indices, ith_body, acc, bodies, gravity_constant) ==
    IF indices = <<>> THEN acc
    ELSE LeafLoop(Tail(indices), ith_body,
                  IF Head(indices) # ith_body
                  THEN [forces |-> accumulate_gravity_force(ith_body, Head(indices), acc.forces,
                                                            bodies, gravity_constant),
                        visits |-> Append(acc.visits, Head(indices))]
                  ELSE acc,
                  bodies, gravity_constant)

RECURSIVE GravityLoop(_, _, _, _, _, _, _)
GravityLoop(stack, ith_body, acc, bodies, qt_nodes, theta_sqr_threshold, gravity_constant) ==
    IF stack = <<>> THEN acc
    ELSE LET node == At(qt_nodes, Head(stack))
             dx == FSub(node.boundary.center[1], At(bodies, ith_body).position[1])
             dy == FSub(node.boundary.center[2], At(bodies, ith_body).position[2])
             d_sqr == distance_sqr(<<dx, dy>>)
         IN  IF is_leaf(node)
             THEN GravityLoop(Tail(stack), ith_body,
                              LeafLoop(node.referenced_indices, ith_body, acc, bodies,
                                       gravity_constant),
                              bodies, qt_nodes, theta_sqr_threshold, gravity_constant)
             ELSE IF FLt(d_sqr, SMALL)
             THEN GravityLoop(Tail(stack), ith_body, acc, bodies, qt_nodes,
                              theta_sqr_threshold, gravity_constant)
             ELSE IF FLt(FDiv(FMul(size(node.boundary), size(node.boundary)), d_sqr),
                         theta_sqr_threshold)
             THEN GravityLoop(Tail(stack), ith_body,
                              [acc EXCEPT !.forces =
                                  add_force(@, ith_body, dx, dy, d_sqr,
                                            FMul(FMul(gravity_constant,
                                                      At(bodies, ith_body).mass),
                                                 node.mass))],
                              bodies, qt_nodes, theta_sqr_threshold, gravity_constant)
             ELSE GravityLoop(Tail(stack) \o child_range(node.children_idx),
                              ith_body, acc, bodies, qt_nodes, theta_sqr_threshold,
                              gravity_constant)

compute_gravity_forces(ith_body, forces, bodies, qt_nodes, theta_sqr_threshold, gravity_constant) ==
    GravityLoop(<<ROOT_IDX>>, ith_body, [forces |-> forces, visits |-> <<>>], bodies, qt_nodes,
                theta_sqr_threshold, gravity_constant)

(***************************************************************************)
(* Collision resolver (physics.rs).                                        *)
(***************************************************************************)
\* elastic_collission, the energy correction: the velocity of body j scaled
\* so that the pair has the kinetic energy ke_start again
energy_correction(bodies, ith, jth, ke_start) ==
    LET ratio == FSqrt(FDiv(FSub(ke_start, kinectic_energy(At(bodies, ith))),
                            kinectic_energy(At(bodies, jth))))
    IN  [bodies EXCEPT ![jth + 1].velocity = <<FMul(@[1], ratio), FMul(@[2], ratio)>>]

\* elastic_collission, the elastic impulse p along the contact normal on both
\* velocities
impulse_velocities(bodies, ith, jth, unit, p) ==
    [bodies EXCEPT
        ![ith + 1].velocity =
            <<FAdd(@[1], FMul(FMul(unit[1], p), At(bodies, jth).mass)),
              FAdd(@[2], FMul(FMul(unit[2], p), At(bodies, jth).mass))>>,
        ![jth + 1].velocity =
            <<FSub(@[1], FMul(FMul(unit[1], p), At(bodies, ith).mass)),
              FSub(@[2], FMul(FMul(unit[2], p), At(bodies, ith).mass))>>]

\* elastic_collission from ke_start on: the impulse on both velocities,
\* followed by the energy correction against the energy before the impulse
apply_impulse(bodies, ith, jth, unit, p) ==
    energy_correction(impulse_velocities(bodies, ith, jth, unit, p), ith, jth,
                      FAdd(kinectic_energy(At(bodies, ith)), kinectic_energy(At(bodies, jth))))

\* the relative velocity projected on the unit vector between the centres
impact_speed(bodies, ith, jth, unit) ==
    FAdd(FMul(FSub(At(bodies, jth).velocity[1], At(bodies, ith).velocity[1]), unit[1]),
         FMul(FSub(At(bodies, jth).velocity[2], At(bodies, ith).velocity[2]), unit[2]))

\* 2.0 * impact_speed / (m_i + m_j)
impulse(bodies, ith, jth, v_n) ==
    FDiv(FMul(Two, v_n), FAdd(At(bodies, ith).mass, At(bodies, jth).mass))

\* a resolution without the early return of a separating pair
rebound_unguarded(bodies, ith, jth, unit, v_n) ==
    apply_impulse(bodies, ith, jth, unit, impulse(bodies, ith, jth, v_n))

\* elastic_collission once body j was moved to touch body i: the early
\* return of a pair that is not approaching, else the impulse
rebound(bodies, ith, jth, unit, v_n) ==
    IF FGt(v_n, Zero) THEN bodies
    ELSE apply_impulse(bodies, ith, jth, unit, impulse(bodies, ith, jth, v_n))

\* elastic_collission of a pair in contact: body j is moved along the unit
\* vector between the centres until the two bodies are just touching
separate(bodies, ith, jth, unit, radii_sum) ==
    rebound([bodies EXCEPT ![jth + 1].position =
                <<FAdd(At(bodies, ith).position[1], FMul(unit[1], radii_sum)),
                  FAdd(At(bodies, ith).position[2], FMul(unit[2], radii_sum))>>],
            ith, jth, unit, impact_speed(bodies, ith, jth, unit))

relative_position(bodies, ith, jth) ==
    <<FSub(At(bodies, jth).position[1], At(bodies, ith).position[1]),
      FSub(At(bodies, jth).position[2], At(bodies, ith).position[2])>>

\* relative_position / distance
unit_delta_pos(rel, distance) == <<FDiv(rel[1], distance), FDiv(rel[2], distance)>>

\* the bodies and the collided set after the call, and whether the pair was
\* found in contact
elastic_collission(bodies, ith, jth, colliding_bodies) ==
    LET rel == relative_position(bodies, ith, jth)
        radii_sum == FAdd(At(bodies, ith).radius, At(bodies, jth).radius)
    IN  IF FGt(distance_sqr(rel), FMul(radii_sum, radii_sum))
        THEN [bodies |-> bodies, colliding_bodies |-> colliding_bodies, contact |-> FALSE]
        ELSE [bodies |-> separate(bodies, ith, jth,
                                  unit_delta_pos(rel, FSqrt(distance_sqr(rel))), radii_sum),
              colliding_bodies |-> colliding_bodies \cup {ith, jth},
              contact |-> TRUE]

\* the state of compute_collisions after a call r of elastic_collission on
\* the pair <<ith_body, jth_body>>, with the log of resolved contacts
after_collission(contacts, ith_body, jth_body, r) ==
    [bodies |-> r.bodies, colliding_bodies |-> r.colliding_bodies,
     contacts |-> IF r.contact THEN Append(contacts, <<ith_body, jth_body>>) ELSE contacts]

RECURSIVE NeighbourLoop(_, _, _)
\* the inner loop of compute_collisions over the candidates of body ith_body;
\* st holds the bodies, the collided set and the log of resolved contacts
NeighbourLoop(nbr_bodies, ith_body, st) ==
    IF nbr_bodies = <<>> THEN st
    ELSE IF ith_body = Head(nbr_bodies) \/ Head(nbr_bodies) \in st.colliding_bodies
    THEN NeighbourLoop(Tail(nbr_bodies), ith_body, st)
    ELSE NeighbourLoop(Tail(nbr_bodies), ith_body,
                       after_collission(st.contacts, ith_body, Head(nbr_bodies),
                                        elastic_collission(st.bodies, ith_body,
                                                           Head(nbr_bodies),
                                                           st.colliding_bodies)))

RECURSIVE BodyLoop(_, _, _)
\* the outer loop of compute_collisions
BodyLoop(ith_body, st, qt_nodes) ==
    IF ith_body >= Len(st.bodies) THEN st
    ELSE IF ith_body \in st.colliding_bodies THEN BodyLoop(ith_body + 1, st, qt_nodes)
    ELSE LET b == At(st.bodies, ith_body)
             boundary == SquareBox(b.position, FMul(Real(4), b.radius))
             nbr_bodies == query_range(qt_nodes, boundary, st.bodies)
         IN  BodyLoop(ith_body + 1, NeighbourLoop(nbr_bodies, ith_body, st), qt_nodes)

compute_collisions(bodies, qt_nodes) ==
    BodyLoop(0, [bodies |-> bodies, colliding_bodies |-> {}, contacts |-> <<>>], qt_nodes)

(***************************************************************************)
(* Simulation (simulation.rs).                                             *)
(***************************************************************************)
VARIABLES
    bodies,          \* Simulation.bodies
    forces,          \* Simulation.forces
    nodes,           \* Simulation.qt.nodes
    capacity,        \* Simulation.qt.capacity
    parameters,      \* Simulation.parameters
    current_time,    \* Simulation.current_time
    kinetic_energy,  \* Simulation.kinetic_energy
    pc,              \* where the running operation is: "idle" between operations
    caller,          \* the operation that runs update_quadtree
    index,           \* update_quadtree: the body index being inserted
    node_idx,        \* insert_unchecked: the node popped from the deque next
    built,           \* the positions the quadtree was last rebuilt over
    contacts,        \* pairs <<i, j>> resolved in contact by the last compute_collisions
    visits,          \* per body, the neighbours the last gravity pass called the kernel for
    ret              \* the last call that was observed: a query_range or an insert with
                     \* the value it returned, or a reset

\* the web-socket server around the simulation (ws-server)
VARIABLES
    guards,             \* the tasks that hold a guard of the mutex of the simulation
    stepper,            \* spawn_simulation: where the stepping loop is
    counter,            \* ServerState.simulation.0, the number of steps made
    connected_clients,  \* ServerState.connected_clients: the client of each sender pushed
    open,               \* per client, whether its connection is still up
    stream,             \* per client, from_client: the frames sent and not yet read
    reader,             \* per client, the task that reads and handles its frames
    queue,              \* per client, the unbounded channel from tx to rx
    socket,             \* per client, to_client: the messages written to the connection
    sent                \* the number of frames the clients have sent

srv == <<guards, stepper, counter, connected_clients, open, stream, reader, queue, socket,
         sent>>

vars == <<bodies, forces, nodes, capacity, parameters, current_time, kinetic_energy,
          pc, caller, index, node_idx, built, contacts, visits, ret, srv>>

\* bounds of the server
MaxClients == 1
MaxFrames == 2
MaxTicks == 1
Clients == 1..MaxClients

\* the reader of a connection between two frames: awaiting from_client.next()
AwaitNext == [phase |-> "next", op |-> "none", bodies |-> <<>>, sim_state |-> <<>>]

\* ServerState::new and the connections as handle_connection leaves them
ServerIdle ==
    /\ guards = {}
    /\ stepper = "elapsed"
    /\ counter = 0
    /\ connected_clients = <<>>
    /\ open = [c \in Clients |-> TRUE]
    /\ stream = [c \in Clients |-> <<>>]
    /\ reader = [c \in Clients |-> AwaitNext]
    /\ queue = [c \in Clients |-> <<>>]
    /\ socket = [c \in Clients |-> <<>>]
    /\ sent = 0

\* inputs
BodyInputs ==
    { DefaultBody,
      Body(<<2, 2>>, <<0, 0>>, 2, 1),
      Body(<<1, 1>>, <<0, 0>>, 1, 0),
      Body(<<2, 0>>, <<0, 0>>, 1, 1) }
DtInputs == {Real(1)}
ThetaInputs == {Zero, Real(1)}
GravityInputs == {Real(1)}
RegionInputs ==
    { SquareBox(<<Real(1), Real(1)>>, Real(4)),
      SquareBox(<<Real(0), Real(2)>>, Real(1)) }

Positions(bs) == [i \in 1..Len(bs) |-> bs[i].position]

\* Simulation::default, with the solver and physics parameters and the leaf
\* capacity (SquareQuadtree::with_capacity) the embedding configures
Init ==
    /\ bodies = <<>>
    /\ forces = <<>>
    /\ nodes = clear(SquareBox(<<Zero, Zero>>, Real(1)))
    /\ capacity \in (1..MaxCapacity) \cup {DEFAULT_CAPACITY}
    /\ parameters \in [dt : DtInputs, barnes_hut_theta : {Zero},
                       gravity_constant : GravityInputs]
    /\ current_time = Zero
    /\ kinetic_energy = Zero
    /\ pc = "idle"
    /\ caller = "none"
    /\ index = 0
    /\ node_idx = ROOT_IDX
    /\ built = <<>>
    /\ contacts = <<>>
    /\ visits = <<>>
    /\ ret = <<>>
    /\ ServerIdle

\* update_quadtree up to its first insertion: clear the pool, install the root
update_quadtree(from) ==
    /\ nodes' = clear(from_bodies(bodies'))
    /\ built' = Positions(bodies')
    /\ index' = 0
    /\ node_idx' = ROOT_IDX
    /\ caller' = from

\* where control goes when update_quadtree returns
AfterRebuild(from) == IF from = "step" THEN "collide" ELSE "idle"

add_body(body) ==
    /\ pc = "idle"
    /\ Len(bodies) < MaxBodies
    /\ bodies' = Append(bodies, body)
    /\ forces' = Append(forces, <<Zero, Zero>>)
    /\ update_quadtree("add_body")
    /\ pc' = "rebuild"
    /\ ret' = <<>>
    /\ UNCHANGED <<capacity, parameters, current_time, kinetic_energy, contacts, visits>>

set_solver_parameters(dt, theta) ==
    /\ pc = "idle"
    /\ parameters' = [parameters EXCEPT !.dt = dt, !.barnes_hut_theta = theta]
    /\ ret' = <<>>
    /\ UNCHANGED <<bodies, forces, nodes, capacity, current_time, kinetic_energy, pc, caller,
                   index, node_idx, built, contacts, visits>>

\* a step that keeps the forces of the previous step
keep_forces(fs) == fs

\* step: every entry of the force buffer set to [0.0, 0.0]
zero_forces(fs) == [i \in 1..Len(fs) |-> <<Zero, Zero>>]

\* step, first phase: zero the forces and start update_quadtree
step_begin ==
    /\ pc = "idle"
    /\ FLt(current_time, Real(MaxSteps))
    /\ forces' = zero_forces(forces)
    /\ bodies' = bodies
    /\ update_quadtree("step")
    /\ pc' = IF Len(bodies) = 0 THEN AfterRebuild("step") ELSE "rebuild"
    /\ contacts' = <<>>
    /\ visits' = <<>>
    /\ ret' = <<>>
    /\ UNCHANGED <<capacity, parameters, current_time, kinetic_energy>>

\* one iteration of the loop of insert_unchecked; when the index is stored,
\* update_quadtree moves on to the next body or returns
insert_unchecked ==
    /\ pc = "rebuild"
    /\ \E r \in {InsertIteration(nodes, node_idx, index, bodies, capacity)} :
           /\ nodes' = r.nodes
           /\ IF r.exhausted
              THEN pc' = "oom" /\ UNCHANGED <<index, node_idx>>
              ELSE IF ~r.stored
              THEN pc' = pc /\ node_idx' = r.next /\ index' = index
              ELSE IF index + 1 < Len(bodies)
              THEN pc' = pc /\ node_idx' = ROOT_IDX /\ index' = index + 1
              ELSE pc' = AfterRebuild(caller) /\ node_idx' = ROOT_IDX /\ index' = 0
    /\ UNCHANGED <<bodies, forces, capacity, parameters, current_time, kinetic_energy, caller,
                   built, contacts, visits, ret>>

\* step: compute_collisions
step_collide ==
    /\ pc = "collide"
    /\ \E r \in {compute_collisions(bodies, nodes)} :
           /\ bodies' = r.bodies
           /\ contacts' = r.contacts
    /\ pc' = "gravity"
    /\ UNCHANGED <<forces, nodes, capacity, parameters, current_time, kinetic_energy, caller,
                   index, node_idx, built, visits, ret>>

\* the force buffer after compute_gravity_forces returned r for one more
\* body, with the log of the neighbours its pairwise kernel was called for
after_gravity(visits_log, r) == [forces |-> r.forces, visits |-> Append(visits_log, r.visits)]

RECURSIVE PhysicsLoop(_, _, _, _, _, _)
\* step: the loop that runs compute_gravity_forces for every body
PhysicsLoop(i, acc, bs, qt_nodes, theta_sqr, gravity_constant) ==
    IF i >= Len(bs) THEN acc
    ELSE PhysicsLoop(i + 1,
                     after_gravity(acc.visits,
                                   compute_gravity_forces(i, acc.forces, bs, qt_nodes,
                                                          theta_sqr, gravity_constant)),
                     bs, qt_nodes, theta_sqr, gravity_constant)

step_gravity ==
    /\ pc = "gravity"
    /\ \E r \in {PhysicsLoop(0, [forces |-> forces, visits |-> <<>>], bodies, nodes,
                             FMul(parameters.barnes_hut_theta, parameters.barnes_hut_theta),
                             parameters.gravity_constant)} :
           /\ forces' = r.forces
           /\ visits' = r.visits
    /\ pc' = "integrate"
    /\ UNCHANGED <<bodies, nodes, capacity, parameters, current_time, kinetic_energy, caller,
                   index, node_idx, built, contacts, ret>>

\* step: the body moved over dt with its new velocity
advance(body, velocity, dt) ==
    [body EXCEPT !.velocity = velocity,
                 !.position = <<FAdd(@[1], FMul(velocity[1], dt)),
                                FAdd(@[2], FMul(velocity[2], dt))>>]

\* step: semi-implicit Euler on one body, the velocity first
integrate(body, force, dt) ==
    advance(body,
            <<FAdd(body.velocity[1], FMul(FDiv(force[1], body.mass), dt)),
              FAdd(body.velocity[2], FMul(FDiv(force[2], body.mass), dt))>>,
            dt)

\* step: the integrated body stored, its kinetic energy added to the total
store(acc, i, updated) ==
    [bodies |-> [acc.bodies EXCEPT ![i + 1] = updated],
     kinetic_energy |-> FAdd(acc.kinetic_energy, kinectic_energy(updated))]

RECURSIVE IntegrateLoop(_, _, _, _)
\* step: the integration loop; acc holds the bodies and the energy
IntegrateLoop(i, acc, fs, dt) ==
    IF i >= Len(acc.bodies) THEN acc
    ELSE IntegrateLoop(i + 1, store(acc, i, integrate(At(acc.bodies, i), At(fs, i), dt)),
                       fs, dt)

step_integrate ==
    /\ pc = "integrate"
    /\ \E r \in {IntegrateLoop(0, [bodies |-> bodies, kinetic_energy |-> Zero], forces,
                               parameters.dt)} :
           /\ bodies' = r.bodies
           /\ kinetic_energy' = r.kinetic_energy
    /\ pc' = "advance"
    /\ UNCHANGED <<forces, nodes, capacity, parameters, current_time, caller, index, node_idx,
                   built, contacts, visits, ret>>

\* step, last statement: advance the physical time
step_advance ==
    /\ pc = "advance"
    /\ current_time' = FAdd(current_time, parameters.dt)
    /\ pc' = "idle"
    /\ UNCHANGED <<bodies, forces, nodes, capacity, parameters, kinetic_energy, caller, index,
                   node_idx, built, contacts, visits, ret>>

BodiesInputs == { <<DefaultBody, Body(<<2, 2>>, <<0, 0>>, 2, 1)>> }

\* Simulation::add_bodies: the forces and the bodies extended, one rebuild
add_bodies(bs) ==
    /\ pc = "idle"
    /\ Len(bodies) + Len(bs) <= MaxBodies
    /\ forces' = forces \o [i \in 1..Len(bs) |-> <<Zero, Zero>>]
    /\ bodies' = bodies \o bs
    /\ update_quadtree("add_bodies")
    /\ pc' = IF Len(bodies') = 0 THEN AfterRebuild("add_bodies") ELSE "rebuild"
    /\ ret' = <<>>
    /\ UNCHANGED <<capacity, parameters, current_time, kinetic_energy, contacts, visits>>

set_physics_parameters(gravity_constant) ==
    /\ pc = "idle"
    /\ parameters' = [parameters EXCEPT !.gravity_constant = gravity_constant]
    /\ ret' = <<>>
    /\ UNCHANGED <<bodies, forces, nodes, capacity, current_time, kinetic_energy, pc, caller,
                   index, node_idx, built, contacts, visits>>

\* a reset that forgets to clear the cached kinetic energy
reset_keeping_energy ==
    /\ pc = "idle"
    /\ bodies' = <<>>
    /\ forces' = <<>>
    /\ current_time' = Zero
    /\ nodes' = clear(SquareBox(<<Zero, Zero>>, Real(1)))
    /\ capacity' = DEFAULT_CAPACITY
    /\ built' = <<>>
    /\ contacts' = <<>>
    /\ visits' = <<>>
    /\ ret' = <<[op |-> "reset"]>>
    /\ UNCHANGED <<parameters, kinetic_energy, pc, caller, index, node_idx>>

\* Simulation::reset: bodies, forces, time and energy cleared and a new
\* quadtree (SquareQuadtree::new, so the default capacity) over the unit box
reset ==
    /\ pc = "idle"
    /\ bodies' = <<>>
    /\ forces' = <<>>
    /\ current_time' = Zero
    /\ kinetic_energy' = Zero
    /\ nodes' = clear(SquareBox(<<Zero, Zero>>, Real(1)))
    /\ capacity' = DEFAULT_CAPACITY
    /\ built' = <<>>
    /\ contacts' = <<>>
    /\ visits' = <<>>
    /\ ret' = <<[op |-> "reset"]>>
    /\ UNCHANGED <<parameters, pc, caller, index, node_idx>>

\* a range query on the quadtree between two operations
query(region) ==
    /\ pc = "idle"
    /\ ret' = <<[op |-> "query_range", region |-> region,
                 result |-> query_range(nodes, region, bodies)]>>
    /\ UNCHANGED <<bodies, forces, nodes, capacity, parameters, current_time, kinetic_energy,
                   pc, caller, index, node_idx, built, contacts, visits>>

\* the engine used on its own: no server runs
Next ==
    \/ \E body \in BodyInputs : add_body(body) /\ UNCHANGED srv
    \/ \E dt \in DtInputs, theta \in ThetaInputs :
           set_solver_parameters(dt, theta) /\ UNCHANGED srv
    \/ step_begin /\ UNCHANGED srv
    \/ insert_unchecked /\ UNCHANGED srv
    \/ step_collide /\ UNCHANGED srv
    \/ step_gravity /\ UNCHANGED srv
    \/ step_integrate /\ UNCHANGED srv
    \/ step_advance /\ UNCHANGED srv
    \/ \E region \in RegionInputs : query(region) /\ UNCHANGED srv
    \/ \E bs \in BodiesInputs : add_bodies(bs) /\ UNCHANGED srv
    \/ \E g \in GravityInputs : set_physics_parameters(g) /\ UNCHANGED srv
    \/ reset /\ UNCHANGED srv

Spec == Init /\ [][Next]_vars

----------------------------------------------------------------------------
\* The quadtree used on its own: a tree made over a boundary the user
\* supplies, and bodies inserted with insert, which tests the boundary.

InsertBodies ==
    { <<DefaultBody, Body(<<2, 2>>, <<0, 0>>, 2, 1), Body(<<1, 1>>, <<0, 0>>, 1, 0),
        Body(<<3, 0>>, <<0, 0>>, 1, 1)>> }

BoundaryInputs ==
    { SquareBox(<<Real(1), Real(1)>>, Real(1)), SquareBox(<<Zero, Zero>>, Real(1)) }

RECURSIVE Stored(_, _)
\* the number of indices the nodes from slot n on hold
Stored(pool, n) ==
    IF n > Len(pool) THEN 0 ELSE Len(pool[n].referenced_indices) + Stored(pool, n + 1)

\* SquareQuadtree::new(boundary).with_capacity(capacity) and a slice of bodies
InsertInit ==
    /\ bodies \in InsertBodies
    /\ forces = <<>>
    /\ nodes \in {clear(boundary) : boundary \in BoundaryInputs}
    /\ capacity \in (1..MaxCapacity) \cup {DEFAULT_CAPACITY}
    /\ parameters \in [dt : DtInputs, barnes_hut_theta : {Zero},
                       gravity_constant : GravityInputs]
    /\ current_time = Zero
    /\ kinetic_energy = Zero
    /\ pc = "idle"
    /\ caller = "insert"
    /\ index = 0
    /\ node_idx = ROOT_IDX
    /\ built = <<>>
    /\ contacts = <<>>
    /\ visits = <<>>
    /\ ret = <<>>
    /\ ServerIdle

\* SquareQuadtree::insert up to the call of insert_unchecked: false at once
\* when the root boundary does not contain the position
insert(i) ==
    /\ pc = "idle"
    /\ Stored(nodes, 1) < MaxBodies
    /\ index' = i
    /\ node_idx' = ROOT_IDX
    /\ IF ~contains(At(nodes, ROOT_IDX).boundary, At(bodies, i).position)
       THEN pc' = "idle" /\ ret' = <<[op |-> "insert", index |-> i, result |-> FALSE]>>
       ELSE pc' = "insert" /\ ret' = <<>>
    /\ UNCHANGED <<bodies, forces, nodes, capacity, parameters, current_time, kinetic_energy,
                   caller, built, contacts, visits>>

\* SquareQuadtree::insert from the call of insert_unchecked on: one iteration
\* of its loop, and true when the index is stored
insert_descend ==
    /\ pc = "insert"
    /\ \E r \in {InsertIteration(nodes, node_idx, index, bodies, capacity)} :
           /\ nodes' = r.nodes
           /\ IF r.exhausted
              THEN pc' = "oom" /\ ret' = ret /\ node_idx' = node_idx
              ELSE IF ~r.stored
              THEN pc' = pc /\ ret' = ret /\ node_idx' = r.next
              ELSE /\ pc' = "idle"
                   /\ ret' = <<[op |-> "insert", index |-> index, result |-> TRUE]>>
                   /\ node_idx' = ROOT_IDX
    /\ UNCHANGED <<bodies, forces, capacity, parameters, current_time, kinetic_energy, caller,
                   index, built, contacts, visits>>

InsertNext ==
    \/ \E i \in 0..(Len(bodies) - 1) : insert(i) /\ UNCHANGED srv
    \/ insert_descend /\ UNCHANGED srv

InsertSpec == InsertInit /\ [][InsertNext]_vars

----------------------------------------------------------------------------
(***************************************************************************)
(* The message codec (wasm-bindings/src/lib.rs).  The bytes of a message   *)
(* are a record: whether they are a gzip stream, and the bincode content   *)
(* of that stream, the index of the enum variant and its fields.           *)
(***************************************************************************)
\* Option<T>
None == <<>>
Some(x) == <<x>>

\* ClientToServerMessage
Subscribe == [tag |-> "Subscribe", bodies |-> <<>>]
AddBodies(bs) == [tag |-> "AddBodies", bodies |-> bs]
State == [tag |-> "State", bodies |-> <<>>]
Reset == [tag |-> "Reset", bodies |-> <<>>]

\* ServerToClientMessage::StateUpdate
StateUpdate(bs, physical_time, ke) ==
    [bodies |-> bs, physical_time |-> physical_time, kinetic_energy |-> ke]

\* serialize_and_compress of a ClientToServerMessage
serialize_client_msg(msg) ==
    [gzip |-> TRUE,
     variant |-> CASE msg.tag = "Subscribe" -> 0
                   [] msg.tag = "AddBodies" -> 1
                   [] msg.tag = "State" -> 2
                   [] msg.tag = "Reset" -> 3,
     fields |-> IF msg.tag = "AddBodies" THEN <<msg.bodies>> ELSE <<>>]

\* decompress_and_deserialize to a ClientToServerMessage: None for bytes that
\* are no gzip stream and for a content that is no variant of the enum
deserialize_client_msg(data) ==
    IF ~data.gzip THEN None
    ELSE IF data.variant = 0 /\ Len(data.fields) = 0 THEN Some(Subscribe)
    ELSE IF data.variant = 1 /\ Len(data.fields) = 1 THEN Some(AddBodies(data.fields[1]))
    ELSE IF data.variant = 2 /\ Len(data.fields) = 0 THEN Some(State)
    ELSE IF data.variant = 3 /\ Len(data.fields) = 0 THEN Some(Reset)
    ELSE None

\* serialize_and_compress of a ServerToClientMessage
serialize_server_msg(msg) ==
    [gzip |-> TRUE, variant |-> 0,
     fields |-> <<msg.bodies, msg.physical_time, msg.kinetic_energy>>]

\* decompress_and_deserialize to a ServerToClientMessage
deserialize_server_msg(data) ==
    IF data.gzip /\ data.variant = 0 /\ Len(data.fields) = 3
    THEN Some(StateUpdate(data.fields[1], data.fields[2], data.fields[3]))
    ELSE None

(***************************************************************************)
(* The server (ws-server): the stepping loop, and per connection a reader  *)
(* task that handles the frames of the client and a writer task.           *)
(***************************************************************************)
\* bytes that are no gzip stream
Garbage == [gzip |-> FALSE, variant |-> 0, fields |-> <<>>]

\* tungstenite Message
Binary(data) == [type |-> "Binary", text |-> "", data |-> data]
Text(text) == [type |-> "Text", text |-> text, data |-> Garbage]

\* the body a client adds: it moves
MovingBody == Body(<<0, 0>>, <<1, 0>>, 1, 1)

FrameInputs ==
    { Binary(serialize_client_msg(Subscribe)),
      Binary(serialize_client_msg(AddBodies(<<MovingBody>>))),
      Binary(serialize_client_msg(State)),
      Binary(serialize_client_msg(Reset)),
      Binary(Garbage),
      Text("hello") }

\* the simulation of the server
sim == <<bodies, forces, nodes, capacity, parameters, current_time, kinetic_energy,
         pc, caller, index, node_idx, built, contacts, visits, ret>>

\* the task of the stepping loop, next to the tasks 1..MaxClients of the readers
Stepper == 0

\* ServerState::new: Simulation::new() behind the mutex, no client
ServerInit ==
    /\ bodies = <<>>
    /\ forces = <<>>
    /\ nodes = clear(SquareBox(<<Zero, Zero>>, Real(1)))
    /\ capacity = DEFAULT_CAPACITY
    /\ parameters = [dt |-> Fin(3), barnes_hut_theta |-> Zero, gravity_constant |-> Real(100)]
    /\ current_time = Zero
    /\ kinetic_energy = Zero
    /\ pc = "idle"
    /\ caller = "none"
    /\ index = 0
    /\ node_idx = ROOT_IDX
    /\ built = <<>>
    /\ contacts = <<>>
    /\ visits = <<>>
    /\ ret = <<>>
    /\ ServerIdle

\* the Text reply of handle_msg to a frame: one for a frame that is not
\* Binary, one for a Binary frame that does not decode, none otherwise
error_reply_binary_only(frame) ==
    IF frame.type = "Binary" /\ deserialize_client_msg(frame.data) = None
    THEN <<Text("Failed to parse message")>>
    ELSE <<>>

error_reply(frame) ==
    IF frame.type # "Binary" THEN <<Text("Received invalid message")>>
    ELSE IF deserialize_client_msg(frame.data) = None
    THEN <<Text("Failed to parse message")>>
    ELSE <<>>

\* the client message handle_msg hands to handle_client_to_server_messages
decoded(frame) ==
    IF frame.type = "Binary" THEN deserialize_client_msg(frame.data) ELSE None

RECURSIVE BodiesIn(_)
\* the number of bodies the AddBodies frames of a stream carry
BodiesIn(frames) ==
    IF frames = <<>> THEN 0
    ELSE (IF decoded(Head(frames)) = None THEN 0 ELSE Len(decoded(Head(frames))[1].bodies))
         + BodiesIn(Tail(frames))

RECURSIVE PendingBodies(_)
\* the bodies on their way to the simulation, of the clients c..MaxClients
PendingBodies(c) ==
    IF c > MaxClients THEN 0
    ELSE BodiesIn(stream[c]) + Len(reader[c].bodies) + PendingBodies(c + 1)

\* a client sends a frame
client_send(c, frame) ==
    /\ open[c]
    /\ sent < MaxFrames
    /\ Len(bodies) + PendingBodies(1) + BodiesIn(<<frame>>) <= MaxBodies
    /\ stream' = [stream EXCEPT ![c] = Append(@, frame)]
    /\ sent' = sent + 1
    /\ UNCHANGED <<sim, guards, stepper, counter, connected_clients, open, reader, queue,
                   socket>>

\* a client goes away: its stream ends after the frames it has sent
client_close(c) ==
    /\ open[c]
    /\ open' = [open EXCEPT ![c] = FALSE]
    /\ UNCHANGED <<sim, guards, stepper, counter, connected_clients, stream, reader, queue,
                   socket, sent>>

\* the reader task: from_client.next() yields a frame and handle_msg runs up
\* to the lock of the simulation: the error replies, and Subscribe
reader_next(c) ==
    /\ reader[c].phase = "next"
    /\ stream[c] # <<>>
    /\ stream' = [stream EXCEPT ![c] = Tail(@)]
    /\ queue' = [queue EXCEPT ![c] = @ \o error_reply(Head(stream[c]))]
    /\ \E msg \in {decoded(Head(stream[c]))} :
           /\ connected_clients' =
                  IF msg # None /\ msg[1].tag = "Subscribe"
                  THEN Append(connected_clients, c) ELSE connected_clients
           /\ reader' =
                  IF msg # None /\ msg[1].tag # "Subscribe"
                  THEN [reader EXCEPT ![c] = [phase |-> "lock", op |-> msg[1].tag,
                                              bodies |-> msg[1].bodies, sim_state |-> <<>>]]
                  ELSE reader
    /\ UNCHANGED <<sim, guards, stepper, counter, open, socket, sent>>

\* the reader task: from_client.next() yields None or an error after the
\* connection ended, and the loop goes round
reader_end_of_stream(c) ==
    /\ reader[c].phase = "next"
    /\ stream[c] = <<>>
    /\ ~open[c]
    /\ UNCHANGED vars

\* a lock that does not wait for the guard of another task
acquire_unchecked(task) == guards' = guards \cup {task}

\* Mutex::lock (the lock! macro): returns once no other task holds a guard
acquire(task) == guards = {} /\ guards' = {task}

\* the handlers of AddBodies, State and Reset take the lock of the simulation
handler_lock(c) ==
    /\ reader[c].phase = "lock"
    /\ acquire(c)
    /\ reader' = [reader EXCEPT ![c].phase = "locked"]
    /\ UNCHANGED <<sim, stepper, counter, connected_clients, open, stream, queue, socket, sent>>

\* AddBodies: one call of add_body of the for_each, up to its update_quadtree
handler_add_body(c) ==
    /\ reader[c].phase = "locked"
    /\ reader[c].op = "AddBodies"
    /\ reader[c].bodies # <<>>
    /\ add_body(Head(reader[c].bodies))
    /\ reader' = [reader EXCEPT ![c].bodies = Tail(@)]
    /\ UNCHANGED <<guards, stepper, counter, connected_clients, open, stream, queue, socket,
                   sent>>

\* AddBodies: the for_each is over and the guard is dropped
handler_release(c) ==
    /\ reader[c].phase = "locked"
    /\ reader[c].op = "AddBodies"
    /\ reader[c].bodies = <<>>
    /\ pc = "idle"
    /\ guards' = guards \ {c}
    /\ reader' = [reader EXCEPT ![c] = AwaitNext]
    /\ UNCHANGED <<sim, stepper, counter, connected_clients, open, stream, queue, socket, sent>>

\* Reset: Simulation::reset under the guard, which is dropped after it
handler_reset(c) ==
    /\ reader[c].phase = "locked"
    /\ reader[c].op = "Reset"
    /\ reset
    /\ guards' = guards \ {c}
    /\ reader' = [reader EXCEPT ![c] = AwaitNext]
    /\ UNCHANGED <<stepper, counter, connected_clients, open, stream, queue, socket, sent>>

\* gather_state: the bodies, the time and the cached kinetic energy
gather_state ==
    StateUpdate(bodies, current_time, kinetic_energy)

\* State: the snapshot is taken under the guard, which is dropped at the end
\* of the block
handler_gather(c) ==
    /\ reader[c].phase = "locked"
    /\ reader[c].op = "State"
    /\ reader' = [reader EXCEPT ![c].phase = "reply", ![c].sim_state = <<gather_state>>]
    /\ guards' = guards \ {c}
    /\ UNCHANGED <<sim, stepper, counter, connected_clients, open, stream, queue, socket, sent>>

\* State: the snapshot is serialized and sent on tx as a Binary message
handler_reply(c) ==
    /\ reader[c].phase = "reply"
    /\ queue' = [queue EXCEPT
                    ![c] = Append(@, Binary(serialize_server_msg(reader[c].sim_state[1])))]
    /\ reader' = [reader EXCEPT ![c] = AwaitNext]
    /\ UNCHANGED <<sim, guards, stepper, counter, connected_clients, open, stream, socket, sent>>

\* the writer task: rx.recv() yields a message, which is written to the
\* connection; the error of a write to a connection that ended is dropped
writer_recv(c) ==
    /\ queue[c] # <<>>
    /\ queue' = [queue EXCEPT ![c] = Tail(@)]
    /\ socket' = [socket EXCEPT ![c] = IF open[c] THEN Append(@, Head(queue[c])) ELSE @]
    /\ UNCHANGED <<sim, guards, stepper, counter, connected_clients, open, stream, reader, sent>>

\* spawn_simulation: the frame interval has elapsed and the loop takes the lock
stepper_lock ==
    /\ stepper = "elapsed"
    /\ counter < MaxTicks
    /\ acquire(Stepper)
    /\ stepper' = "locked"
    /\ UNCHANGED <<sim, counter, connected_clients, open, stream, reader, queue, socket, sent>>

\* spawn_simulation: simulation.step() starts
stepper_step ==
    /\ stepper = "locked"
    /\ step_begin
    /\ stepper' = "stepping"
    /\ UNCHANGED <<guards, counter, connected_clients, open, stream, reader, queue, socket,
                   sent>>

\* spawn_simulation: step has returned, the counter is incremented and the
\* guard is dropped at the end of the block
stepper_unlock ==
    /\ stepper = "stepping"
    /\ pc = "idle"
    /\ counter' = counter + 1
    /\ guards' = guards \ {Stepper}
    /\ stepper' = "elapsed"
    /\ UNCHANGED <<sim, connected_clients, open, stream, reader, queue, socket, sent>>

\* the steps of the reader task of client c
ReaderTask(c) ==
    \/ reader_next(c)
    \/ reader_end_of_stream(c)
    \/ handler_lock(c)
    \/ handler_add_body(c)
    \/ (c \in guards /\ insert_unchecked /\ UNCHANGED srv)
    \/ handler_release(c)
    \/ handler_reset(c)
    \/ handler_gather(c)
    \/ handler_reply(c)

\* the steps of the stepping loop, but for the two passes of step that
\* StepperPass stands for
StepperTask ==
    \/ stepper_lock
    \/ stepper_step
    \/ (stepper = "stepping" /\ insert_unchecked /\ UNCHANGED srv)
    \/ (step_gravity /\ UNCHANGED srv)
    \/ (step_advance /\ UNCHANGED srv)
    \/ stepper_unlock

\* the stepping loop leaving the collision pass or the integration pass of
\* step: compute_collisions and the integration loop return for every state,
\* so step_collide and step_integrate are the steps that change pc there and
\* they can be taken whenever pc is at their pass
StepperPass ==
    \/ pc = "collide" /\ pc' = "gravity"
    \/ pc = "integrate" /\ pc' = "advance"

ServerNext ==
    \/ \E c \in Clients, frame \in FrameInputs : client_send(c, frame)
    \/ \E c \in Clients : client_close(c)
    \/ \E c \in Clients : reader_next(c)
    \/ \E c \in Clients : reader_end_of_stream(c)
    \/ \E c \in Clients : handler_lock(c)
    \/ \E c \in Clients : handler_add_body(c)
    \/ \E c \in Clients : handler_release(c)
    \/ \E c \in Clients : handler_reset(c)
    \/ \E c \in Clients : handler_gather(c)
    \/ \E c \in Clients : handler_reply(c)
    \/ \E c \in Clients : writer_recv(c)
    \/ stepper_lock
    \/ stepper_step
    \/ insert_unchecked /\ UNCHANGED srv
    \/ step_collide /\ UNCHANGED srv
    \/ step_gravity /\ UNCHANGED srv
    \/ step_integrate /\ UNCHANGED srv
    \/ step_advance /\ UNCHANGED srv
    \/ stepper_unlock

ServerSpec == ServerInit /\ [][ServerNext]_vars

\* the stepping loop runs on its own thread and the tasks of the connections
\* on the task pool: each of them goes on when it can; clients need not act
ServerFairSpec ==
    /\ ServerSpec
    /\ WF_vars(StepperTask)
    /\ WF_pc(StepperPass)
    /\ \A c \in Clients : WF_vars(ReaderTask(c)) /\ WF_vars(writer_recv(c))

(***************************************************************************)
(* Properties.                                                             *)
(***************************************************************************)
RECURSIVE SumMass(_, _)
\* the sum of the masses of the first n bodies
SumMass(bs, n) == IF n = 0 THEN Zero ELSE FAdd(SumMass(bs, n - 1), bs[n].mass)

Range(seq) == {seq[k] : k \in DOMAIN seq}
Indices == 0..(Len(bodies) - 1)
Internal == {n \in 1..Len(nodes) : ~is_leaf(nodes[n])}
Leaves == {n \in 1..Len(nodes) : is_leaf(nodes[n])}
Root == At(nodes, ROOT_IDX)

\* no insertion is under way: the bodies 0..Inserted-1 are in the tree
InsertionComplete == pc # "oom" /\ (pc = "rebuild" => node_idx = ROOT_IDX)
Inserted == IF pc = "rebuild" THEN index ELSE Len(bodies)

\* the quadtree is the one built over the current positions
Fresh == pc = "idle" /\ built = Positions(bodies)

FiniteVector(v) == IsFinite(v[1]) /\ IsFinite(v[2])
FiniteBodies ==
    \A i \in Indices :
        FiniteVector(At(bodies, i).position) /\ FiniteVector(At(bodies, i).velocity)

\* C1: between insertions the root's mass is the sum of the masses of the
\* inserted bodies, and the mass of every internal node is the sum of the
\* masses of its four children
C1_MassConservation ==
    InsertionComplete =>
        /\ Root.mass = SumMass(bodies, Inserted)
        /\ \A n \in Internal :
              LET c == nodes[n].children_idx
              IN  nodes[n].mass = FAdd(FAdd(FAdd(At(nodes, c).mass, At(nodes, c + 1).mass),
                                            At(nodes, c + 2).mass),
                                       At(nodes, c + 3).mass)

\* an insertion has just subdivided a leaf and update_quadtree goes on
C1_Witness ==
    /\ pc = "rebuild" /\ node_idx = ROOT_IDX /\ index >= 2
    /\ Len(nodes) >= 5
    /\ Root.mass = SumMass(bodies, index)
    /\ \E n \in Leaves : Len(nodes[n].referenced_indices) > 0 /\ nodes[n].mass # Root.mass

\* the last observed call was a reset
WasReset == ret # <<>> /\ ret[1].op = "reset"

\* the last observed call was a query_range
Queried == ret # <<>> /\ ret[1].op = "query_range"

\* C2: on a freshly built quadtree query_range returns exactly the indices
\* of the bodies whose position lies in the closed region
C2_QueryExact ==
    (Queried /\ Fresh /\ FiniteBodies) =>
        Range(ret[1].result) = {i \in Indices : contains(ret[1].region, At(bodies, i).position)}

\* C3: a query whose region contains the root boundary returns every
\* inserted index exactly once
C3_CoveringQuery ==
    (Queried /\ contains_box(ret[1].region, Root.boundary)) =>
        /\ Len(ret[1].result) = Len(bodies)
        /\ Range(ret[1].result) = Indices

\* a covering query answered on a tree that has been subdivided
C3_Witness ==
    /\ Queried
    /\ contains_box(ret[1].region, Root.boundary)
    /\ Len(bodies) >= 3
    /\ Len(nodes) >= 5
    /\ Len(ret[1].result) = Len(bodies)

\* the box of the quadrant get_quadrant_unchecked numbers q
QuadrantBox(b, q) ==
    CASE q = 0 -> north_east(b)
      [] q = 1 -> north_west(b)
      [] q = 2 -> south_west(b)
      [] q = 3 -> south_east(b)

\* C4: the child at slot children_idx + q has the parent's quadrant-q box,
\* and every index held in a leaf of a fresh tree lies inside the leaf's box
C4_ChildrenInQuadrantOrder ==
    /\ \A n \in Internal : \A q \in 0..3 :
          At(nodes, nodes[n].children_idx + q).boundary = QuadrantBox(nodes[n].boundary, q)
    /\ (Fresh /\ FiniteBodies) =>
          \A n \in Leaves : \A i \in Range(nodes[n].referenced_indices) :
              contains(nodes[n].boundary, At(bodies, i).position)

\* finite positions no two of which are the same
DistinctFinite(ps) ==
    /\ \A i \in 1..Len(ps) : FiniteVector(ps[i])
    /\ \A i, j \in 1..Len(ps) : i # j => ps[i] # ps[j]

\* C5: in one run of compute_collisions (here one that started over finite
\* bodies at distinct positions) every body is in at most one resolved contact
C5_AtMostOneContact ==
    (pc = "gravity" /\ DistinctFinite(built)) =>
        \A b \in Indices :
            Cardinality({k \in DOMAIN contacts : b \in {contacts[k][1], contacts[k][2]}}) <= 1

\* C6: a rebuild over finite bodies terminates also when the bodies of a full
\* leaf all lie where the inserted body lies: it does not subdivide until
\* the node pool is exhausted.  (Bodies at one position fall into the same
\* child at every level, so once such a leaf is subdivided the loop of
\* insert_unchecked never stores the index.)
C6_RebuildTerminates ==
    ~ /\ pc = "oom"
      /\ FiniteBodies
      /\ \A k \in Range(At(nodes, node_idx).referenced_indices) :
             At(bodies, k).position = At(bodies, index).position

\* C7: after a step every position and velocity is finite
C7_FieldsFinite == pc = "idle" => FiniteBodies

\* C8: when the one pair resolved by compute_collisions reaches the energy
\* correction with body j at zero kinetic energy after the impulse, body j
\* keeps the velocity the impulse gave it
C8_ZeroEnergyKeepsVelocity ==
    [][(pc = "collide" /\ pc' = "gravity" /\ Len(contacts') = 1) =>
          LET i == contacts'[1][1]
              j == contacts'[1][2]
              rel == relative_position(bodies, i, j)
              unit == unit_delta_pos(rel, FSqrt(distance_sqr(rel)))
              v_n == impact_speed(bodies, i, j, unit)
              after == impulse_velocities(bodies, i, j, unit, impulse(bodies, i, j, v_n))
          IN  (FLe(v_n, Zero) /\ kinectic_energy(At(after, j)) = Zero)
              => At(bodies', j).velocity = At(after, j).velocity]_vars

\* C9: with theta = 0 the gravity pass (here over finite bodies none of
\* which collided) calls the pairwise kernel for every body i against every
\* other body exactly once
C9_ThetaZeroVisitsAll ==
    (pc = "integrate" /\ parameters.barnes_hut_theta = Zero /\ contacts = <<>> /\ FiniteBodies) =>
        \A i \in Indices :
            /\ Len(At(visits, i)) = Len(bodies) - 1
            /\ Range(At(visits, i)) = Indices \ {i}

ZeroForces == \A i \in 1..Len(forces) : forces[i] = <<Zero, Zero>>
InStep == caller = "step" /\ pc \in {"rebuild", "collide", "gravity", "integrate", "advance"}

\* C10: a step zeroes the forces and rebuilds the quadtree over the positions
\* at its start, then resolves collisions, then computes gravity against the
\* same tree from zero forces, then integrates, then advances the time by dt
C10_PhaseOrder ==
    [][/\ (pc = "idle" /\ pc' # "idle" /\ caller' = "step") =>
              /\ pc' \in {"rebuild", "collide"}
              /\ \A i \in 1..Len(forces') : forces'[i] = <<Zero, Zero>>
              /\ Len(forces') = Len(forces)
              /\ bodies' = bodies
              /\ nodes' = clear(from_bodies(bodies))
       /\ (InStep /\ pc = "rebuild") =>
              /\ pc' \in {"rebuild", "collide", "oom"}
              /\ bodies' = bodies /\ forces' = forces
       /\ (InStep /\ pc = "collide") =>
              /\ pc' = "gravity"
              /\ nodes' = nodes /\ forces' = forces /\ ZeroForces
       /\ (InStep /\ pc = "gravity") =>
              /\ pc' = "integrate"
              /\ nodes' = nodes /\ bodies' = bodies /\ ZeroForces
       /\ (InStep /\ pc = "integrate") =>
              /\ pc' = "advance"
              /\ nodes' = nodes /\ forces' = forces
       /\ (InStep /\ pc = "advance") =>
              /\ pc' = "idle"
              /\ nodes' = nodes /\ bodies' = bodies /\ forces' = forces
              /\ current_time' = FAdd(current_time, parameters.dt)
       /\ (current_time' # current_time) => ((InStep /\ pc = "advance") \/ WasReset')
      ]_vars

\* two steps have run to their end over bodies that attract each other
C10_Witness ==
    /\ pc = "idle"
    /\ current_time = FAdd(parameters.dt, parameters.dt)
    /\ Len(bodies) >= 2
    /\ \E i \in 1..Len(forces) : forces[i] # <<Zero, Zero>>

\* C11: a reset leaves no bodies, no forces, time 0, kinetic energy 0 and a
\* quadtree that is one empty leaf over the unit square at the origin; a
\* reset of a state that a reset produced changes nothing
C11_ResetIdempotent ==
    [][WasReset' =>
          /\ bodies' = <<>>
          /\ forces' = <<>>
          /\ current_time' = Zero
          /\ kinetic_energy' = Zero
          /\ Len(nodes') = 1
          /\ nodes'[1].boundary = SquareBox(<<Zero, Zero>>, Real(1))
          /\ nodes'[1].referenced_indices = <<>>
          /\ nodes'[1].children_idx = 0
          /\ nodes'[1].mass = Zero
          /\ WasReset => UNCHANGED <<bodies, forces, nodes, capacity, parameters,
                                     current_time, kinetic_energy>>
      ]_vars

\* a reset has cleared a simulation that had run a step
C11_Witness == WasReset /\ caller = "step" /\ bodies = <<>> /\ kinetic_energy = Zero

\* C12: from_bodies is never applied to an empty sequence of bodies: while
\* the simulation holds no bodies no step starts and the boundary of the
\* quadtree is not recomputed
C12_StepSkippedWhenEmpty ==
    [][(pc = "idle" /\ bodies = <<>> /\ bodies' = <<>>) =>
              /\ pc' = "idle"
              /\ nodes' \in {nodes, clear(SquareBox(<<Zero, Zero>>, Real(1)))}
      ]_vars

\* the last observed call was an insert
WasInsert == ret # <<>> /\ ret[1].op = "insert"

\* the point lies in the box, its four edges included
ClosedContains(b, point) ==
    /\ FLe(FSub(b.center[1], b.half_size), point[1])
    /\ FLe(point[1], FAdd(b.center[1], b.half_size))
    /\ FLe(FSub(b.center[2], b.half_size), point[2])
    /\ FLe(point[2], FAdd(b.center[2], b.half_size))

\* C13: insert returns true exactly when the position of the body lies in the
\* closed root boundary, and an insert that returns false leaves every node
\* of the quadtree as it was
C13_InsertChecksBoundary ==
    [][/\ (pc = "idle" /\ pc' = "insert") =>
              ClosedContains(Root.boundary, At(bodies, index').position)
       /\ (pc = "idle" /\ WasInsert') =>
              /\ ~ret'[1].result
              /\ ~ClosedContains(Root.boundary, At(bodies, ret'[1].index).position)
              /\ nodes' = nodes
       /\ (pc = "insert" /\ WasInsert') =>
              /\ ret'[1].result
              /\ ClosedContains(Root.boundary, At(bodies, ret'[1].index).position)
      ]_vars

\* an insert of a body outside the boundary has returned false on a tree that
\* holds bodies on the edge of its boundary and was subdivided
C13_Witness ==
    /\ WasInsert /\ ~ret[1].result
    /\ Len(nodes) > 1
    /\ \E i \in Internal \cup Leaves : nodes[i].referenced_indices # <<>>

\* C14: a node is a leaf exactly when its children index is 0; an internal
\* node holds no body index; the children index of an internal node is at
\* least 1 and its four child slots lie inside the pool, so the root (slot
\* 0) is the child of no node
C14_LeafStructure ==
    \A n \in 1..Len(nodes) :
        /\ is_leaf(nodes[n]) <=> nodes[n].children_idx = 0
        /\ (n \in Internal) =>
              /\ nodes[n].referenced_indices = <<>>
              /\ nodes[n].children_idx >= 1
              /\ nodes[n].children_idx + 3 <= Len(nodes) - 1
              /\ \A q \in 1..4 : child_range(nodes[n].children_idx)[q] # ROOT_IDX

\* a tree of depth two holding bodies: the root and one of its children are
\* internal
C14_Witness ==
    /\ pc = "idle"
    /\ Cardinality(Internal) >= 2
    /\ \E n \in Leaves : nodes[n].referenced_indices # <<>>

\* the squared distance of the centres of i and j exceeds the square of the
\* sum of their radii
Apart(i, j) ==
    LET rel == relative_position(bodies, i, j)
        R == FAdd(At(bodies, i).radius, At(bodies, j).radius)
    IN  FGt(FAdd(FMul(rel[1], rel[1]), FMul(rel[2], rel[2])), FMul(R, R))

\* the unit vector from the centre of i to the centre of j
UnitVector(i, j) ==
    LET rel == relative_position(bodies, i, j)
    IN  unit_delta_pos(rel, FSqrt(FAdd(FMul(rel[1], rel[1]), FMul(rel[2], rel[2]))))

\* i and j are in contact and move apart along the line of their centres
Separating(i, j) == ~Apart(i, j) /\ FGt(impact_speed(bodies, i, j, UnitVector(i, j)), Zero)

\* p_i + u * R
Touching(i, j) ==
    LET u == UnitVector(i, j)
        R == FAdd(At(bodies, i).radius, At(bodies, j).radius)
    IN  <<FAdd(At(bodies, i).position[1], FMul(u[1], R)),
          FAdd(At(bodies, i).position[2], FMul(u[2], R))>>

\* C18: for the bodies as compute_collisions finds and leaves them, and with
\* the other bodies in the collided set: the resolution of the pair i, j
\* never changes the position of i; a pair that is not in contact changes no
\* body and not the collided set; a pair in contact that is separating
\* changes the position of j to p_i + u * R and nothing else, and both
\* indices join the collided set
C18_CollisionFrame ==
    pc \in {"collide", "gravity"} =>
        \A i, j \in Indices :
            (i # j) =>
                \E r \in {elastic_collission(bodies, i, j, Indices \ {i, j})} :
                    /\ At(r.bodies, i).position = At(bodies, i).position
                    /\ Apart(i, j) =>
                          /\ r.bodies = bodies
                          /\ r.colliding_bodies = Indices \ {i, j}
                    /\ Separating(i, j) =>
                          /\ r.bodies = [bodies EXCEPT ![j + 1].position = Touching(i, j)]
                          /\ r.colliding_bodies = Indices

\* two bodies with finite fields overlap and move apart, and a third body is
\* in contact with neither of them
C18_Witness ==
    \E i, j, k \in Indices :
        /\ pc = "collide"
        /\ i # j /\ Separating(i, j)
        /\ FiniteVector(At(bodies, i).position) /\ FiniteVector(At(bodies, j).position)
        /\ FiniteVector(At(bodies, i).velocity) /\ FiniteVector(At(bodies, j).velocity)
        /\ At(bodies, j).position # Touching(i, j)
        /\ k # i /\ Apart(i, k)

\* a sender of the client was pushed on connected_clients
Subscribed(c) == c \in Range(connected_clients)

\* the messages of a sequence that decode as a StateUpdate
Updates(messages) ==
    {k \in DOMAIN messages : /\ messages[k].type = "Binary"
                             /\ deserialize_server_msg(messages[k].data) # None}

\* C15: a client that has subscribed and stays connected eventually receives
\* a StateUpdate, pushed to its queue by the server without a State request
C15_SubscribersGetUpdates ==
    \A c \in Clients :
        []((Subscribed(c) /\ open[c]) => <>(Updates(socket[c]) # {} \/ ~open[c]))

\* C16: at most one task holds a guard of the simulation; an operation of
\* the simulation is under way, and the simulation changes, only while a
\* task holds the guard; a reader holds no guard when it awaits a frame,
\* waits for the lock or sends its reply; a snapshot is taken by the holder
\* of the guard between two operations and is the state of the simulation
C16_MutexDiscipline ==
    [][/\ Cardinality(guards') <= 1
       /\ pc' # "idle" => guards' # {}
       /\ sim' # sim => guards # {}
       /\ \A c \in Clients :
              /\ reader'[c].phase \in {"next", "lock", "reply"} => c \notin guards'
              /\ Len(queue'[c]) > Len(queue[c]) => c \notin guards \cup guards'
              /\ (reader[c].sim_state = <<>> /\ reader'[c].sim_state # <<>>) =>
                     /\ guards = {c}
                     /\ pc = "idle"
                     /\ reader'[c].sim_state[1]
                            = StateUpdate(bodies, current_time, kinetic_energy)
      ]_vars

\* the stepping loop is in the middle of a step over some bodies while the
\* handler of a State request waits for the lock
C16_Witness ==
    /\ pc \in {"collide", "gravity", "integrate", "advance"}
    /\ guards = {Stepper}
    /\ bodies # <<>>
    /\ \E c \in Clients : reader[c].phase = "lock" /\ reader[c].op = "State"

\* the frame is not Binary, or it is Binary and its bytes are no gzip stream
\* or its content is none of the four client messages
Invalid(frame) ==
    \/ frame.type # "Binary"
    \/ ~frame.data.gzip
    \/ ~(\/ frame.data.variant \in {0, 2, 3} /\ frame.data.fields = <<>>
         \/ frame.data.variant = 1 /\ Len(frame.data.fields) = 1)

\* the Text messages of a sequence
Texts(messages) == {k \in DOMAIN messages : messages[k].type = "Text"}

\* C17: when the server reads an invalid frame of a client it adds exactly
\* one Text message to the queue of that client and changes neither the
\* simulation nor the subscribers nor the queue of another client; no other
\* step of the server adds a Text message to a queue
C17_InvalidFrameReply ==
    [][\A c \in Clients :
          /\ (stream[c] # <<>> /\ stream'[c] = Tail(stream[c]) /\ Invalid(Head(stream[c]))) =>
                 /\ Len(queue'[c]) = Len(queue[c]) + 1
                 /\ queue'[c][Len(queue'[c])].type = "Text"
                 /\ \A k \in DOMAIN queue[c] : queue'[c][k] = queue[c][k]
                 /\ \A d \in Clients \ {c} : queue'[d] = queue[d]
                 /\ UNCHANGED <<sim, connected_clients, guards, reader>>
          /\ Cardinality(Texts(queue'[c])) > Cardinality(Texts(queue[c])) =>
                 /\ stream[c] # <<>>
                 /\ stream'[c] = Tail(stream[c])
                 /\ Invalid(Head(stream[c]))
      ]_vars

\* a client has received the Text replies to a frame that is not Binary and
\* to a Binary frame that does not decode
C17_Witness ==
    \E c \in Clients :
        /\ Len(socket[c]) = 2
        /\ socket[c][1].type = "Text"
        /\ socket[c][2].type = "Text"
        /\ socket[c][1].text # socket[c][2].text

RECURSIVE KineticSum(_, _, _)
\* the kinetic energies of the bodies n.., added to acc in the order of the
\* bodies
KineticSum(bs, n, acc) ==
    IF n > Len(bs) THEN acc
    ELSE KineticSum(bs, n + 1, FAdd(acc, kinectic_energy(bs[n])))

\* the kinetic energy the StateUpdate reports is the sum over its bodies
Consistent(messages) ==
    \A k \in Updates(messages) :
        LET update == deserialize_server_msg(messages[k].data)[1]
        IN  update.kinetic_energy = KineticSum(update.bodies, 1, Zero)

\* C19: the kinetic energy of every StateUpdate, in a queue or received by a
\* client, is the sum of m |v|^2 / 2 over the bodies of that StateUpdate
C19_SnapshotEnergy ==
    \A c \in Clients : Consistent(queue[c]) /\ Consistent(socket[c])

\* the reader task of the connection has ended, which drops its sender
ReaderStopped(c) == reader[c].phase = "stopped"

\* the writer task has ended: rx.recv() has yielded None, as the queue is
\* empty and every sender of the connection was dropped
WriterStopped(c) == ReaderStopped(c) /\ ~Subscribed(c) /\ queue[c] = <<>>

\* C20: after the connection of a client has ended its reader task stops and
\* then its writer task stops
C20_TasksStopAfterDisconnect ==
    \A c \in Clients : ~open[c] ~> (ReaderStopped(c) /\ WriterStopped(c))

=============================================================================
